---- MODULE Spec2Model ----
(***************************************************************************)
(* Model of src/services/geminiService.ts: seven asynchronous operations   *)
(* that each build one generateContent request, await its outcome and map  *)
(* the outcome to a return value.                                          *)
(*                                                                         *)
(* A call is a slot c with a position pc[c]: "idle" (not yet called),      *)
(* "awaiting" (suspended at the await of ai.models.generateContent) and    *)
(* "done" (the promise has settled).  The synchronous prefix of an         *)
(* operation is its ...Call action, the continuation after the await is    *)
(* its ...Resume action.  Date.now() is the variable now.                  *)
(*                                                                         *)
(* JavaScript values are tagged records (field t), so that values of       *)
(* different types can be compared.                                        *)
(***************************************************************************)
EXTENDS Integers, Sequences, FiniteSets, TLC

VARIABLES pc, op, args, requests, outcome, result, now

vars == <<pc, op, args, requests, outcome, result, now>>

----------------------------------------------------------------------------
(* Bounds of the model *)

MaxCalls == 2
MaxClock == 2
MaxHistory == 2
MaxAttachments == 2

Calls == 1..MaxCalls

----------------------------------------------------------------------------
(* JavaScript values *)

Undefined == [t |-> "undefined"]
Null == [t |-> "null"]
Str(s) == [t |-> "str", s |-> s]
Num(n) == [t |-> "num", n |-> n]
Arr(e) == [t |-> "arr", e |-> e]
Obj(f) == [t |-> "obj", f |-> f]

EmptyFields == [k \in {} |-> Undefined]

\* ToBoolean: the values the source tests with if (...), ||, ?:
Truthy(v) ==
    CASE v.t = "undefined" -> FALSE
      [] v.t = "null" -> FALSE
      [] v.t = "str" -> v.s # ""
      [] v.t = "num" -> v.n # 0
      [] OTHER -> TRUE

\* a || b
OrElse(a, b) == IF Truthy(a) THEN a ELSE b

\* v.k throws a TypeError exactly when v is null or undefined
CanRead(v) == v.t \notin {"undefined", "null"}

\* v.k for a readable v: the property, or undefined when v has none
Get(v, k) == IF v.t = "obj" /\ k \in DOMAIN v.f THEN v.f[k] ELSE Undefined

\* The settlement of a try body or of a promise
Return(v) == [threw |-> FALSE, value |-> v]
Throw == [threw |-> TRUE, value |-> Undefined]
Pending == [threw |-> FALSE, value |-> [t |-> "pending"]]

----------------------------------------------------------------------------
(* Constants of the source *)

MODEL_CHAT_DEFAULT == "gemini-3-pro-preview"
MODEL_FAST == "gemini-2.5-flash"
MODEL_THINKING == "gemini-3-pro-preview"
MODEL_IMAGE_GEN == "gemini-3-pro-image-preview"
MODEL_IMAGE_EDIT == "gemini-2.5-flash-image"

THINKING_BUDGET == 32768
MOCK_DURATION == 30

CORE_SYSTEM_PROMPT_EN == "CORE_EN"
CORE_SYSTEM_PROMPT_ZH == "CORE_ZH"

Personas == {"standard", "socratic", "examiner"}
Languages == {"en", "zh"}

PERSONA_PROMPTS ==
    [p \in Personas |->
        CASE p = "standard" ->
               [en |-> "CORE_EN Provide clear explanations and practical applications.",
                zh |-> "CORE_ZH clear explanations (zh)"]
          [] p = "socratic" ->
               [en |-> "CORE_EN Ask guiding questions to help students derive answers.",
                zh |-> "CORE_ZH guiding questions (zh)"]
          [] p = "examiner" ->
               [en |-> "CORE_EN Assess answers using real marking scheme language.",
                zh |-> "CORE_ZH marking scheme language (zh)"]]

----------------------------------------------------------------------------
(* JSON.parse on the response texts of the model.  A text outside the      *)
(* table is an error of the model, not a parse error.                      *)

TXT_EMPTY_OBJECT == "{}"
TXT_NULL == "null"
TXT_EMPTY_ARRAY == "[]"
TXT_NUMBER == "5"
TXT_GARBAGE == "Sorry, I cannot"
TXT_TRUNCATED == "{\"title\":"

TXT_QUIZ_ONE == "[{\"question\":\"Q1\",\"options\":[\"A\",\"B\",\"C\",\"D\"],\"correctIndex\":2,\"explanation\":\"E1\"}]"
TXT_QUIZ_TWO == "[{\"question\":\"Q2\",\"options\":[\"A\",\"B\",\"C\",\"D\"],\"correctIndex\":0,\"explanation\":\"E2\"},{\"question\":\"Q1\",\"options\":[\"A\",\"B\",\"C\",\"D\"],\"correctIndex\":2,\"explanation\":\"E1\"}]"
TXT_QUIZ_RANGE == "[{\"question\":\"Q3\",\"options\":[\"A\",\"B\"],\"correctIndex\":7,\"explanation\":\"E3\"}]"

TXT_PAPER_FULL == "{\"title\":\"Mock\",\"questions\":[{\"id\":1,\"question\":\"Q\",\"marks\":5}]}"
TXT_PAPER_DURATION == "{\"title\":\"Long\",\"questions\":[],\"durationMinutes\":90,\"type\":\"paper9\"}"
TXT_PAPER_NO_QUESTIONS == "{\"title\":\"Mock\"}"

TXT_RESULT_FULL == "{\"totalMarks\":5,\"userMarks\":3,\"grade\":\"B\",\"feedback\":\"Good\",\"questionFeedback\":[{\"id\":1,\"feedback\":\"ok\",\"marksAwarded\":3}]}"

Options4 == Arr(<<Str("A"), Str("B"), Str("C"), Str("D")>>)
QuizQ1 == Obj([question |-> Str("Q1"), options |-> Options4,
               correctIndex |-> Num(2), explanation |-> Str("E1")])
QuizQ2 == Obj([question |-> Str("Q2"), options |-> Options4,
               correctIndex |-> Num(0), explanation |-> Str("E2")])
QuizQ3 == Obj([question |-> Str("Q3"), options |-> Arr(<<Str("A"), Str("B")>>),
               correctIndex |-> Num(7), explanation |-> Str("E3")])
PaperQ1 == Obj([id |-> Num(1), question |-> Str("Q"), marks |-> Num(5)])
ResultFull == Obj([totalMarks |-> Num(5), userMarks |-> Num(3), grade |-> Str("B"),
                   feedback |-> Str("Good"),
                   questionFeedback |->
                       Arr(<<Obj([id |-> Num(1), feedback |-> Str("ok"),
                                  marksAwarded |-> Num(3)])>>)])

MalformedTexts == {TXT_GARBAGE, TXT_TRUNCATED, ""}

JSONParse(s) ==
    CASE s = TXT_EMPTY_OBJECT -> Return(Obj(EmptyFields))
      [] s = TXT_NULL -> Return(Null)
      [] s = TXT_EMPTY_ARRAY -> Return(Arr(<<>>))
      [] s = TXT_NUMBER -> Return(Num(5))
      [] s = TXT_QUIZ_ONE -> Return(Arr(<<QuizQ1>>))
      [] s = TXT_QUIZ_TWO -> Return(Arr(<<QuizQ2, QuizQ1>>))
      [] s = TXT_QUIZ_RANGE -> Return(Arr(<<QuizQ3>>))
      [] s = TXT_PAPER_FULL ->
           Return(Obj([title |-> Str("Mock"), questions |-> Arr(<<PaperQ1>>)]))
      [] s = TXT_PAPER_DURATION ->
           Return(Obj([title |-> Str("Long"), questions |-> Arr(<<>>),
                       durationMinutes |-> Num(90), type |-> Str("paper9")]))
      [] s = TXT_PAPER_NO_QUESTIONS -> Return(Obj([title |-> Str("Mock")]))
      [] s = TXT_RESULT_FULL -> Return(ResultFull)
      [] s \in MalformedTexts -> Throw

----------------------------------------------------------------------------
(* A request is a record [model, contents, config]; a prompt string passed *)
(* as contents is the record [prompt |-> string].                          *)
(*                                                                         *)
(* The upstream service: what the awaited generateContent settles to.      *)
(* A rejection is a transport failure or an API error; a fulfilment is a   *)
(* response.  The optional chains of the source                            *)
(*   response.candidates?.[0]?.groundingMetadata?.groundingChunks          *)
(*   response.candidates?.[0]?.content?.parts                              *)
(* are the fields groundingChunks and parts: undefined when a link of the  *)
(* chain is missing.                                                       *)

TransportError == [kind |-> "transport"]
ApiError == [kind |-> "api"]
Response(text, chunks, parts) ==
    [kind |-> "response", text |-> text, groundingChunks |-> chunks, parts |-> parts]
NoOutcome == [kind |-> "none"]

Failures == {TransportError, ApiError}

\* await ai.models.generateContent(...): the response, or the rejection thrown
Await(out) == IF out.kind = "response" THEN Return(out) ELSE Throw

----------------------------------------------------------------------------
(* chatWithGemini *)

RECURSIVE Join(_, _)
\* history.join(sep)
Join(seq, sep) ==
    IF Len(seq) = 0 THEN ""
    ELSE IF Len(seq) = 1 THEN seq[1]
    ELSE seq[1] \o sep \o Join(Tail(seq), sep)

InlinePart(att) == [inlineData |-> [mimeType |-> att.mimeType, data |-> att.data]]
TextPart(s) == [text |-> s]

\* chatContentParts with the history block pushed unconditionally
chatContentParts_AlwaysHistory(history, message, attachments) ==
    <<TextPart("History:\n" \o Join(history, "\n") \o "\n")>>
    \o [i \in 1..Len(attachments) |-> InlinePart(attachments[i])]
    \o <<TextPart(message)>>

\* lines 77-82: the content parts
chatContentParts(history, message, attachments) ==
    (IF Len(history) > 0
       THEN <<TextPart("History:\n" \o Join(history, "\n") \o "\n")>>
       ELSE <<>>)
    \o [i \in 1..Len(attachments) |-> InlinePart(attachments[i])]
    \o <<TextPart(message)>>

\* chatSelect with the two tests in the other order
chatSelect_SearchFirst(config, systemInstruction) ==
    IF config.useSearch
      THEN [model |-> MODEL_FAST,
            config |-> [systemInstruction |-> systemInstruction,
                        tools |-> <<"googleSearch">>]]
    ELSE IF config.useThinking
      THEN [model |-> MODEL_THINKING,
            config |-> [systemInstruction |-> systemInstruction,
                        thinkingConfig |-> [thinkingBudget |-> THINKING_BUDGET]]]
    ELSE [model |-> MODEL_CHAT_DEFAULT,
          config |-> [systemInstruction |-> systemInstruction]]

\* lines 84-92: the model and the request configuration
chatSelect(config, systemInstruction) ==
    IF config.useThinking
      THEN [model |-> MODEL_THINKING,
            config |-> [systemInstruction |-> systemInstruction,
                        thinkingConfig |-> [thinkingBudget |-> THINKING_BUDGET]]]
    ELSE IF config.useSearch
      THEN [model |-> MODEL_FAST,
            config |-> [systemInstruction |-> systemInstruction,
                        tools |-> <<"googleSearch">>]]
    ELSE [model |-> MODEL_CHAT_DEFAULT,
          config |-> [systemInstruction |-> systemInstruction]]

\* lines 76-98: the request chatWithGemini sends
chatRequest(a) ==
    LET sel == chatSelect(a.config, PERSONA_PROMPTS[a.persona][a.language])
    IN  [model |-> sel.model,
         contents |-> [role |-> "user",
                       parts |-> chatContentParts(a.history, a.message, a.attachments)],
         config |-> sel.config]

\* lines 100-105: the citations of the grounding chunks
groundingSources(chunks) ==
    IF ~Truthy(chunks) THEN Return(Arr(<<>>))
    ELSE IF chunks.t # "arr" THEN Throw
    ELSE IF \E i \in 1..Len(chunks.e) : ~CanRead(chunks.e[i]) THEN Throw
    ELSE LET web == SelectSeq(chunks.e, LAMBDA ch : Truthy(Get(ch, "web")))
         IN  Return(Arr([i \in 1..Len(web) |->
                 Obj([title |-> Get(Get(web[i], "web"), "title"),
                      uri |-> Get(Get(web[i], "web"), "uri")])]))

\* lines 94-107: the try body after the await
chatTry(out) ==
    LET r == Await(out) IN
    IF r.threw THEN Throw
    ELSE LET g == groundingSources(r.value.groundingChunks) IN
         IF g.threw THEN Throw
         ELSE Return(Obj([text |-> OrElse(r.value.text, Str("No response.")),
                          groundingSources |-> g.value]))

\* lines 108-111: the catch
chatCatch(body) ==
    IF body.threw THEN Return(Obj([text |-> Str("Connection error.")])) ELSE body

----------------------------------------------------------------------------
(* generateOrEditImage *)

\* imageRequest with the test image !== null
imageRequest_NullTest(a) ==
    IF a.image # Null
      THEN [model |-> MODEL_IMAGE_EDIT,
            contents |-> [parts |-> <<[inlineData |-> [mimeType |-> "image/png",
                                                       data |-> a.image.s]],
                                      TextPart(a.prompt)>>]]
      ELSE [model |-> MODEL_IMAGE_GEN,
            contents |-> [parts |-> <<TextPart(a.prompt)>>],
            config |-> [imageConfig |-> [aspectRatio |-> a.aspectRatio,
                                         imageSize |-> a.size]]]

\* lines 116-127: the request, chosen by if (image)
imageRequest(a) ==
    IF Truthy(a.image)
      THEN [model |-> MODEL_IMAGE_EDIT,
            contents |-> [parts |-> <<[inlineData |-> [mimeType |-> "image/png",
                                                       data |-> a.image.s]],
                                      TextPart(a.prompt)>>]]
      ELSE [model |-> MODEL_IMAGE_GEN,
            contents |-> [parts |-> <<TextPart(a.prompt)>>],
            config |-> [imageConfig |-> [aspectRatio |-> a.aspectRatio,
                                         imageSize |-> a.size]]]

RECURSIVE firstInlineData(_)
\* lines 121, 128: for (const part of parts) if (part.inlineData) return ...data
firstInlineData(parts) ==
    IF Len(parts) = 0 THEN Return(Null)
    ELSE IF ~CanRead(parts[1]) THEN Throw
    ELSE IF Truthy(Get(parts[1], "inlineData"))
           THEN Return(Get(Get(parts[1], "inlineData"), "data"))
    ELSE firstInlineData(Tail(parts))

\* lines 117-130: the try body after the await (the same in both branches)
imageTry(out) ==
    LET r == Await(out) IN
    IF r.threw THEN Throw
    ELSE LET parts == OrElse(r.value.parts, Arr(<<>>)) IN
         IF parts.t # "arr" THEN Throw ELSE firstInlineData(parts.e)

\* line 131
imageCatch(body) == IF body.threw THEN Return(Null) ELSE body

----------------------------------------------------------------------------
(* generateQuizQuestions *)

\* lines 136-156
quizRequest(a) ==
    [model |-> MODEL_FAST,
     contents |-> [prompt |->
                     "Generate 5 multiple-choice questions for A-Level CS 9618 about: "
                     \o Join(a.topics, ", ") \o ". Return JSON."],
     config |-> [responseMimeType |-> "application/json", responseSchema |-> "quiz"]]

\* line 157
quizTry(out) ==
    LET r == Await(out) IN
    IF r.threw THEN Throw
    ELSE IF Truthy(r.value.text) THEN JSONParse(r.value.text.s)
    ELSE Return(Arr(<<>>))

\* line 158
quizCatch(body) == IF body.threw THEN Return(Arr(<<>>)) ELSE body

----------------------------------------------------------------------------
(* gradeSubmission and analyzeCode *)

\* lines 163-169
gradeRequest(a) ==
    [model |-> MODEL_CHAT_DEFAULT,
     contents |-> [parts |-> [i \in 1..Len(a.files) |-> InlinePart(a.files[i])]
                             \o <<TextPart("Grade submission for 9618: " \o a.text)>>],
     config |-> [systemInstruction |->
                    IF a.language = "zh" THEN CORE_SYSTEM_PROMPT_ZH
                                         ELSE CORE_SYSTEM_PROMPT_EN]]

\* line 170
gradeTry(out) ==
    LET r == Await(out) IN
    IF r.threw THEN Throw ELSE Return(OrElse(r.value.text, Str("No feedback.")))

\* line 171
gradeCatch(body) == IF body.threw THEN Return(Str("Error grading.")) ELSE body

\* lines 176-181
analyzeRequest(a) ==
    [model |-> MODEL_CHAT_DEFAULT,
     contents |-> [prompt |->
                     "Analyze " \o a.language \o " code for logic and Big O. Code: "
                     \o a.code],
     config |-> [systemInstruction |->
                    IF a.userLang = "zh" THEN CORE_SYSTEM_PROMPT_ZH
                                         ELSE CORE_SYSTEM_PROMPT_EN]]

\* line 182
analyzeTry(out) ==
    LET r == Await(out) IN
    IF r.threw THEN Throw ELSE Return(OrElse(r.value.text, Str("Analysis failed.")))

\* line 183
analyzeCatch(body) == IF body.threw THEN Return(Str("Error analyzing code.")) ELSE body

----------------------------------------------------------------------------
(* generateMockPaper *)

\* lines 188-212
paperRequest(a) ==
    [model |-> MODEL_CHAT_DEFAULT,
     contents |-> [prompt |->
                     "Generate a mini Mock Exam for Cambridge 9618 "
                     \o (IF a.type = "paper1" THEN "Theory" ELSE "Coding")
                     \o ". 3 questions. JSON."],
     config |-> [responseMimeType |-> "application/json", responseSchema |-> "paper"]]

\* Date.now().toString()
paperId(clock) == Str(ToString(clock))

\* paperOf with the duration spread from the response when it has one
paperOf_ResponseDuration(type, data, clock) ==
    Obj([id |-> paperId(clock), type |-> Str(type),
         durationMinutes |-> OrElse(Get(data, "durationMinutes"), Num(MOCK_DURATION)),
         title |-> Get(data, "title"), questions |-> Get(data, "questions")])

\* line 214: the paper built from the parsed data
paperOf(type, data, clock) ==
    Obj([id |-> paperId(clock), type |-> Str(type),
         durationMinutes |-> Num(MOCK_DURATION),
         title |-> Get(data, "title"), questions |-> Get(data, "questions")])

\* lines 213-214
paperTry(type, out, clock) ==
    LET r == Await(out) IN
    IF r.threw THEN Throw
    ELSE LET d == JSONParse(OrElse(r.value.text, Str("{}")).s) IN
         IF d.threw \/ ~CanRead(d.value) THEN Throw
         ELSE Return(paperOf(type, d.value, clock))

PaperSentinel(type) ==
    Obj([id |-> Str("error"), type |-> Str(type), title |-> Str("Error"),
         durationMinutes |-> Num(0), questions |-> Arr(<<>>)])

\* line 215
paperCatch(type, body) == IF body.threw THEN Return(PaperSentinel(type)) ELSE body

----------------------------------------------------------------------------
(* gradeMockPaper *)

\* lines 220-247; JSON.stringify(paper) and JSON.stringify(answers) are kept
\* as the values they serialise
gradePaperRequest(a) ==
    [model |-> MODEL_CHAT_DEFAULT,
     contents |-> [prompt |-> "Grade this 9618 Mock Exam.",
                   paper |-> a.paper, answers |-> a.answers],
     config |-> [responseMimeType |-> "application/json", responseSchema |-> "result"]]

\* line 248
gradePaperTry(out) ==
    LET r == Await(out) IN
    IF r.threw THEN Throw ELSE JSONParse(OrElse(r.value.text, Str("{}")).s)

ResultSentinel ==
    Obj([totalMarks |-> Num(0), userMarks |-> Num(0), grade |-> Str("U"),
         feedback |-> Str("Error"), questionFeedback |-> Arr(<<>>)])

\* gradePaperCatch that rethrows
gradePaperCatch_Rethrow(body) == body

\* line 249
gradePaperCatch(body) == IF body.threw THEN Return(ResultSentinel) ELSE body

----------------------------------------------------------------------------
(* Inputs and upstream outcomes *)

SeqsUpTo(S, n) == UNION {[1..k -> S] : k \in 0..n}

Att1 == [mimeType |-> "image/png", data |-> "iVBOR"]
Att2 == [mimeType |-> "application/pdf", data |-> "JVBER"]

Histories == SeqsUpTo({"Hi"}, MaxHistory)
AttachmentLists == SeqsUpTo({Att1, Att2}, MaxAttachments)
ChatConfigs == [useSearch : BOOLEAN, useThinking : BOOLEAN]

ChatArgs ==
    [history : Histories, message : {"Explain queues"}, attachments : AttachmentLists,
     persona : Personas, language : Languages, config : ChatConfigs]

ImageArgs ==
    [prompt : {"a stack diagram"}, image : {Null, Str(""), Str("iVBOR")},
     aspectRatio : {"1:1", "16:9"}, size : {"1K"}, language : Languages]

QuizArgs == [topics : {<<"Arrays">>, <<"Arrays", "Sorting">>}, language : Languages]

GradeArgs == [text : {"my answer"}, files : AttachmentLists, language : Languages]

AnalyzeArgs == [code : {"x <- 1"}, language : {"python"}, userLang : Languages]

PaperArgs == [type : {"paper1", "paper2"}, language : Languages]

APaper ==
    Obj([id |-> Str("1"), type |-> Str("paper1"), durationMinutes |-> Num(30),
         title |-> Str("Mock"), questions |-> Arr(<<PaperQ1>>)])

GradePaperArgs ==
    [paper : {APaper}, answers : {[q \in {1} |-> "a queue"], [q \in {} |-> ""]},
     language : Languages]

WebChunk == Obj([web |-> Obj([title |-> Str("Wiki"), uri |-> Str("https://w")])])
OtherChunk == Obj([retrievedContext |-> Obj(EmptyFields)])

ChunkValues ==
    {Undefined, Arr(<<>>), Arr(<<WebChunk, OtherChunk>>), Arr(<<Null>>),
     Obj(EmptyFields)}

TextOnlyPart == Obj([text |-> Str("here is your image")])
ImgPart(d) == Obj([inlineData |-> Obj([mimeType |-> Str("image/png"), data |-> Str(d)])])

PartsValues ==
    {Undefined, Arr(<<>>), Arr(<<TextOnlyPart>>),
     Arr(<<TextOnlyPart, ImgPart("AAAA"), ImgPart("BBBB")>>), Arr(<<Null>>)}

TextResponses(texts) == {Response(t, Undefined, Undefined) : t \in texts}

ChatOutcomes ==
    Failures \cup {Response(t, g, Undefined) :
                      t \in {Undefined, Str("A queue is FIFO.")}, g \in ChunkValues}

ImageOutcomes == Failures \cup {Response(Undefined, Undefined, p) : p \in PartsValues}

QuizOutcomes ==
    Failures \cup TextResponses({Undefined, Str(""), Str(TXT_EMPTY_ARRAY),
                                 Str(TXT_QUIZ_ONE), Str(TXT_QUIZ_TWO),
                                 Str(TXT_QUIZ_RANGE), Str(TXT_EMPTY_OBJECT),
                                 Str(TXT_GARBAGE)})

PlainOutcomes ==
    Failures \cup TextResponses({Undefined, Str(""), Str("Well done.")})

PaperOutcomes ==
    Failures \cup TextResponses({Undefined, Str(""), Str(TXT_PAPER_FULL),
                                 Str(TXT_PAPER_DURATION), Str(TXT_PAPER_NO_QUESTIONS),
                                 Str(TXT_EMPTY_OBJECT), Str(TXT_NULL), Str(TXT_NUMBER),
                                 Str(TXT_GARBAGE), Str(TXT_TRUNCATED)})

GradePaperOutcomes ==
    Failures \cup TextResponses({Undefined, Str(""), Str(TXT_RESULT_FULL),
                                 Str(TXT_EMPTY_OBJECT), Str(TXT_EMPTY_ARRAY),
                                 Str(TXT_GARBAGE), Str(TXT_TRUNCATED)})

----------------------------------------------------------------------------
(* State and actions *)

NoArgs == [none |-> TRUE]

Init ==
    /\ pc = [c \in Calls |-> "idle"]
    /\ op = [c \in Calls |-> "none"]
    /\ args = [c \in Calls |-> NoArgs]
    /\ requests = [c \in Calls |-> <<>>]
    /\ outcome = [c \in Calls |-> NoOutcome]
    /\ result = [c \in Calls |-> Pending]
    /\ now = 0

\* generateContent that sends the request a second time
generateContent_Resend(c, req) ==
    requests' = [requests EXCEPT ![c] = Append(Append(@, req), req)]

\* ai.models.generateContent(req): one outbound request of call c
generateContent(c, req) == requests' = [requests EXCEPT ![c] = Append(@, req)]

\* An operation o is called with arguments a and runs up to its await
Enter(c, o, a) ==
    /\ pc' = [pc EXCEPT ![c] = "awaiting"]
    /\ op' = [op EXCEPT ![c] = o]
    /\ args' = [args EXCEPT ![c] = a]
    /\ UNCHANGED <<outcome, result, now>>

\* The awaited request settles to out and the promise of the call to res
Settle(c, out, res) ==
    /\ pc' = [pc EXCEPT ![c] = "done"]
    /\ outcome' = [outcome EXCEPT ![c] = out]
    /\ result' = [result EXCEPT ![c] = res]
    /\ UNCHANGED <<op, args, requests, now>>

Suspended(c, o) == pc[c] = "awaiting" /\ op[c] = o

chatWithGeminiCall(c, a) ==
    /\ pc[c] = "idle"
    /\ generateContent(c, chatRequest(a))
    /\ Enter(c, "chatWithGemini", a)

chatWithGeminiResume(c, out) ==
    /\ Suspended(c, "chatWithGemini")
    /\ Settle(c, out, chatCatch(chatTry(out)))

generateOrEditImageCall(c, a) ==
    /\ pc[c] = "idle"
    /\ generateContent(c, imageRequest(a))
    /\ Enter(c, "generateOrEditImage", a)

generateOrEditImageResume(c, out) ==
    /\ Suspended(c, "generateOrEditImage")
    /\ Settle(c, out, imageCatch(imageTry(out)))

generateQuizQuestionsCall(c, a) ==
    /\ pc[c] = "idle"
    /\ generateContent(c, quizRequest(a))
    /\ Enter(c, "generateQuizQuestions", a)

generateQuizQuestionsResume(c, out) ==
    /\ Suspended(c, "generateQuizQuestions")
    /\ Settle(c, out, quizCatch(quizTry(out)))

gradeSubmissionCall(c, a) ==
    /\ pc[c] = "idle"
    /\ generateContent(c, gradeRequest(a))
    /\ Enter(c, "gradeSubmission", a)

gradeSubmissionResume(c, out) ==
    /\ Suspended(c, "gradeSubmission")
    /\ Settle(c, out, gradeCatch(gradeTry(out)))

analyzeCodeCall(c, a) ==
    /\ pc[c] = "idle"
    /\ generateContent(c, analyzeRequest(a))
    /\ Enter(c, "analyzeCode", a)

analyzeCodeResume(c, out) ==
    /\ Suspended(c, "analyzeCode")
    /\ Settle(c, out, analyzeCatch(analyzeTry(out)))

generateMockPaperCall(c, a) ==
    /\ pc[c] = "idle"
    /\ generateContent(c, paperRequest(a))
    /\ Enter(c, "generateMockPaper", a)

generateMockPaperResume(c, out) ==
    /\ Suspended(c, "generateMockPaper")
    /\ Settle(c, out, paperCatch(args[c].type, paperTry(args[c].type, out, now)))

gradeMockPaperCall(c, a) ==
    /\ pc[c] = "idle"
    /\ generateContent(c, gradePaperRequest(a))
    /\ Enter(c, "gradeMockPaper", a)

gradeMockPaperResume(c, out) ==
    /\ Suspended(c, "gradeMockPaper")
    /\ Settle(c, out, gradePaperCatch(gradePaperTry(out)))

\* The clock Date.now() reads advances
Tick ==
    /\ now < MaxClock
    /\ now' = now + 1
    /\ UNCHANGED <<pc, op, args, requests, outcome, result>>

----------------------------------------------------------------------------
(* Spec: one call, every input and every upstream outcome of the model *)

Next ==
    \/ \E a \in ChatArgs : chatWithGeminiCall(1, a)
    \/ \E out \in ChatOutcomes : chatWithGeminiResume(1, out)
    \/ \E a \in ImageArgs : generateOrEditImageCall(1, a)
    \/ \E out \in ImageOutcomes : generateOrEditImageResume(1, out)
    \/ \E a \in QuizArgs : generateQuizQuestionsCall(1, a)
    \/ \E out \in QuizOutcomes : generateQuizQuestionsResume(1, out)
    \/ \E a \in GradeArgs : gradeSubmissionCall(1, a)
    \/ \E out \in PlainOutcomes : gradeSubmissionResume(1, out)
    \/ \E a \in AnalyzeArgs : analyzeCodeCall(1, a)
    \/ \E out \in PlainOutcomes : analyzeCodeResume(1, out)
    \/ \E a \in PaperArgs : generateMockPaperCall(1, a)
    \/ \E out \in PaperOutcomes : generateMockPaperResume(1, out)
    \/ \E a \in GradePaperArgs : gradeMockPaperCall(1, a)
    \/ \E out \in GradePaperOutcomes : gradeMockPaperResume(1, out)
    \/ Tick

Spec == Init /\ [][Next]_vars

----------------------------------------------------------------------------
(* ConcSpec: MaxCalls calls in flight at once, one input per operation *)

ConcChatArgs ==
    [history |-> <<"Hi">>, message |-> "Explain queues", attachments |-> <<Att1>>,
     persona |-> "standard", language |-> "en",
     config |-> [useSearch |-> FALSE, useThinking |-> FALSE]]
ConcImageArgs ==
    [prompt |-> "a stack diagram", image |-> Null, aspectRatio |-> "1:1",
     size |-> "1K", language |-> "en"]
ConcQuizArgs == [topics |-> <<"Arrays">>, language |-> "en"]
ConcGradeArgs == [text |-> "my answer", files |-> <<Att1>>, language |-> "en"]
ConcAnalyzeArgs == [code |-> "x <- 1", language |-> "python", userLang |-> "en"]
ConcPaperArgs == [type |-> "paper1", language |-> "en"]
ConcGradePaperArgs ==
    [paper |-> APaper, answers |-> [q \in {1} |-> "a queue"], language |-> "en"]

ConcOutcomes == {TransportError, Response(Str(TXT_PAPER_FULL), Undefined, Undefined)}

CallAny(c) ==
    \/ chatWithGeminiCall(c, ConcChatArgs)
    \/ generateOrEditImageCall(c, ConcImageArgs)
    \/ generateQuizQuestionsCall(c, ConcQuizArgs)
    \/ gradeSubmissionCall(c, ConcGradeArgs)
    \/ analyzeCodeCall(c, ConcAnalyzeArgs)
    \/ generateMockPaperCall(c, ConcPaperArgs)
    \/ gradeMockPaperCall(c, ConcGradePaperArgs)

ResumeAny(c) ==
    \E out \in ConcOutcomes :
        \/ chatWithGeminiResume(c, out)
        \/ generateOrEditImageResume(c, out)
        \/ generateQuizQuestionsResume(c, out)
        \/ gradeSubmissionResume(c, out)
        \/ analyzeCodeResume(c, out)
        \/ generateMockPaperResume(c, out)
        \/ gradeMockPaperResume(c, out)

ConcNext ==
    \/ \E c \in Calls : CallAny(c)
    \/ \E c \in Calls : ResumeAny(c)
    \/ Tick

ConcSpec == Init /\ [][ConcNext]_vars

\* The upstream request of every suspended call eventually answers or errors
FairConcSpec == ConcSpec /\ \A c \in Calls : WF_vars(ResumeAny(c))

----------------------------------------------------------------------------
(* Properties *)

Finished(c, o) == pc[c] = "done" /\ op[c] = o
Started(c, o) == pc[c] # "idle" /\ op[c] = o

Operations ==
    {"chatWithGemini", "generateOrEditImage", "generateQuizQuestions",
     "gradeSubmission", "analyzeCode", "generateMockPaper", "gradeMockPaper"}

\* C1: a call of any of the seven operations that has completed has returned
\* a value; none has thrown (rejected), whatever the upstream outcome was.
C1_NeverThrows ==
    \A c \in Calls : pc[c] = "done" => op[c] \in Operations /\ ~result[c].threw

\* a call whose upstream request was rejected has returned its fallback
C1_Witness ==
    \E c \in Calls :
        /\ Finished(c, "gradeMockPaper")
        /\ outcome[c] = TransportError
        /\ result[c] = Return(ResultSentinel)

\* C2: the request of chatWithGemini is configured by priority: thinking
\* (thinking model, budget 32768, no search tool) over search (fast model,
\* search tool, no thinking budget) over the default model with neither.
C2_ConfigPriority ==
    \A c \in Calls : Started(c, "chatWithGemini") =>
        LET cfg == args[c].config
            r == requests[c][1]
            keys == DOMAIN r.config
        IN  /\ cfg.useThinking =>
                /\ r.model = MODEL_THINKING
                /\ "thinkingConfig" \in keys
                /\ r.config.thinkingConfig.thinkingBudget = 32768
                /\ "tools" \notin keys
            /\ ~cfg.useThinking /\ cfg.useSearch =>
                /\ r.model = MODEL_FAST
                /\ "tools" \in keys
                /\ r.config.tools = <<"googleSearch">>
                /\ "thinkingConfig" \notin keys
            /\ ~cfg.useThinking /\ ~cfg.useSearch =>
                /\ r.model = MODEL_CHAT_DEFAULT
                /\ "tools" \notin keys
                /\ "thinkingConfig" \notin keys

\* a chat call with both options set has sent its request
C2_Witness ==
    \E c \in Calls :
        /\ Started(c, "chatWithGemini")
        /\ args[c].config.useThinking
        /\ args[c].config.useSearch
        /\ Len(requests[c]) = 1

----------------------------------------------------------------------------

PaperField(c, k) == Get(result[c].value, k)

IsPaperSentinel(c) ==
    /\ PaperField(c, "id") = Str("error")
    /\ PaperField(c, "title") = Str("Error")
    /\ PaperField(c, "durationMinutes") = Num(0)
    /\ PaperField(c, "questions") = Arr(<<>>)

\* the response texts JSON.parse rejects, and the text of the JSON null
UnusablePaperTexts == {Str(TXT_GARBAGE), Str(TXT_TRUNCATED), Str(TXT_NULL)}

\* C3 as stated: on every upstream success the paper has durationMinutes 30
\* and the type argument, whatever the response contains; on upstream
\* failure it is the error paper.
C3_Original ==
    \A c \in Calls : Finished(c, "generateMockPaper") =>
        /\ outcome[c].kind = "response" =>
              /\ PaperField(c, "durationMinutes") = Num(30)
              /\ PaperField(c, "type") = Str(args[c].type)
        /\ outcome[c] \in Failures => IsPaperSentinel(c)

\* C3: when the upstream call succeeds and the response text is absent,
\* empty, or JSON text of a value other than null, the paper has
\* durationMinutes 30 and the type argument, whatever else the response
\* contains; when the upstream call fails, or the text is not valid JSON or
\* is the JSON null, the paper is the error paper (with the type argument).
C3_Amended ==
    \A c \in Calls : Finished(c, "generateMockPaper") =>
        /\ PaperField(c, "type") = Str(args[c].type)
        /\ outcome[c].kind = "response" /\ outcome[c].text \notin UnusablePaperTexts =>
              PaperField(c, "durationMinutes") = Num(30)
        /\ outcome[c] \in Failures \/
           (outcome[c].kind = "response" /\ outcome[c].text \in UnusablePaperTexts) =>
              IsPaperSentinel(c)

\* a response that carries its own duration and type has produced a paper
C3_Witness ==
    \E c \in Calls :
        /\ Finished(c, "generateMockPaper")
        /\ outcome[c].kind = "response"
        /\ outcome[c].text = Str(TXT_PAPER_DURATION)
        /\ PaperField(c, "durationMinutes") = Num(30)
        /\ PaperField(c, "title") = Str("Long")

\* C4: any two distinct successful generateMockPaper calls return different
\* ids, also when both complete at the same clock reading.
C4_UniqueIds ==
    \A c, d \in Calls :
        /\ c # d
        /\ Finished(c, "generateMockPaper")
        /\ Finished(d, "generateMockPaper")
        /\ ~IsPaperSentinel(c)
        /\ ~IsPaperSentinel(d)
        => PaperField(c, "id") # PaperField(d, "id")

----------------------------------------------------------------------------

WellFormedResultTexts == {Str(TXT_RESULT_FULL)}
NoTexts == {Undefined, Str("")}
NotJsonTexts == {Str(TXT_GARBAGE), Str(TXT_TRUNCATED)}

\* C5: gradeMockPaper returns exactly the sentinel result on a transport
\* failure, an upstream API error and a response-shape mismatch (no text,
\* or text that is not valid JSON for the schema); on a well-formed
\* response it returns the parsed object unchanged.
C5_SentinelOnFailure ==
    \A c \in Calls : Finished(c, "gradeMockPaper") =>
        /\ outcome[c] \in Failures => result[c] = Return(ResultSentinel)
        /\ outcome[c].kind = "response" =>
              /\ outcome[c].text \in NoTexts \cup NotJsonTexts =>
                    result[c] = Return(ResultSentinel)
              /\ outcome[c].text \in WellFormedResultTexts =>
                    result[c] = Return(ResultFull)

----------------------------------------------------------------------------

ImageRequestOf(c) == requests[c][1]

SentToEdit(c) ==
    /\ ImageRequestOf(c).model = MODEL_IMAGE_EDIT
    /\ ImageRequestOf(c).model # MODEL_IMAGE_GEN
    /\ ImageRequestOf(c).contents.parts =
          <<[inlineData |-> [mimeType |-> "image/png", data |-> args[c].image.s]],
            [text |-> args[c].prompt]>>

SentToGeneration(c) ==
    /\ ImageRequestOf(c).model = MODEL_IMAGE_GEN
    /\ ImageRequestOf(c).contents.parts = <<[text |-> args[c].prompt]>>
    /\ "config" \in DOMAIN ImageRequestOf(c)
    /\ ImageRequestOf(c).config.imageConfig =
          [aspectRatio |-> args[c].aspectRatio, imageSize |-> args[c].size]

\* the response has no part with inline data
NoInlineData(out) ==
    \/ out.parts.t # "arr"
    \/ \A i \in 1..Len(out.parts.e) : ~Truthy(Get(out.parts.e[i], "inlineData"))

NullOnNothing(c) ==
    Finished(c, "generateOrEditImage") /\
    (outcome[c] \in Failures \/ NoInlineData(outcome[c]))
        => result[c] = Return(Null)

\* C6 as stated: every non-null image, the empty string included, is sent to
\* the image-edit model; a null image to the image-generation model; no
\* inline data or a failed call returns null.
C6_Original ==
    \A c \in Calls : Started(c, "generateOrEditImage") =>
        /\ args[c].image # Null => SentToEdit(c)
        /\ args[c].image = Null => SentToGeneration(c)
        /\ NullOnNothing(c)

\* C6: every non-null, non-empty image string is sent to the image-edit
\* model as the source image followed by the prompt, never to the
\* image-generation model; a null image and the empty string are sent to
\* the image-generation model with the aspect-ratio/size configuration.  In
\* either path a response without an inline-data part, or a failed call,
\* returns null.
C6_Amended ==
    \A c \in Calls : Started(c, "generateOrEditImage") =>
        /\ args[c].image \notin {Null, Str("")} => SentToEdit(c)
        /\ args[c].image \in {Null, Str("")} => SentToGeneration(c)
        /\ NullOnNothing(c)

\* an empty-string image went down the generation path and a response with
\* only a text part returned null
C6_Witness ==
    \E c \in Calls :
        /\ Finished(c, "generateOrEditImage")
        /\ args[c].image = Str("")
        /\ SentToGeneration(c)
        /\ outcome[c].kind = "response"
        /\ outcome[c].parts = Arr(<<TextOnlyPart>>)
        /\ result[c] = Return(Null)

----------------------------------------------------------------------------

\* the records of a response text that is a JSON array of records conforming
\* to the response schema of lines 142-153
ConformingQuizTexts ==
    [x \in {Str(TXT_EMPTY_ARRAY), Str(TXT_QUIZ_ONE), Str(TXT_QUIZ_TWO),
            Str(TXT_QUIZ_RANGE)} |->
        CASE x = Str(TXT_EMPTY_ARRAY) -> <<>>
          [] x = Str(TXT_QUIZ_ONE) -> <<QuizQ1>>
          [] x = Str(TXT_QUIZ_TWO) -> <<QuizQ2, QuizQ1>>
          [] x = Str(TXT_QUIZ_RANGE) -> <<QuizQ3>>]

IndexInRange(q) ==
    /\ Get(q, "correctIndex").t = "num"
    /\ Get(q, "options").t = "arr"
    /\ Get(q, "correctIndex").n \in 0..(Len(Get(q, "options").e) - 1)

\* C7: generateQuizQuestions returns a sequence in every outcome: the n
\* records of a conforming JSON array in order, each with correctIndex
\* within its options; the empty sequence on failure, no text or
\* malformed JSON.
C7_AlwaysSequence ==
    \A c \in Calls : Finished(c, "generateQuizQuestions") =>
        /\ result[c].value.t = "arr"
        /\ outcome[c].kind = "response" /\ outcome[c].text \in DOMAIN ConformingQuizTexts =>
              /\ result[c] = Return(Arr(ConformingQuizTexts[outcome[c].text]))
              /\ \A i \in 1..Len(result[c].value.e) : IndexInRange(result[c].value.e[i])
        /\ outcome[c] \in Failures \/
           (outcome[c].kind = "response" /\ outcome[c].text \in NoTexts \cup NotJsonTexts) =>
              result[c] = Return(Arr(<<>>))

----------------------------------------------------------------------------

\* C8: every call issues exactly one generateContent request (none before it
\* is called, one from then on, also after a failure), and every call
\* suspended at its request eventually returns.
C8_OneRequestThenDone ==
    /\ [](\A c \in Calls :
            /\ pc[c] = "idle" => Len(requests[c]) = 0
            /\ pc[c] \in {"awaiting", "done"} => Len(requests[c]) = 1)
    /\ \A c \in Calls : (pc[c] = "awaiting") ~> (pc[c] = "done")

\* two calls in flight at once have both completed, one of them after a
\* failure, each with its single request
C8_Witness ==
    \E c, d \in Calls :
        /\ c # d
        /\ pc[c] = "done" /\ pc[d] = "done"
        /\ outcome[c] = TransportError
        /\ outcome[d].kind = "response"
        /\ Len(requests[c]) = 1 /\ Len(requests[d]) = 1

----------------------------------------------------------------------------

\* C9: the parts chatWithGemini sends are, in order, one history text part
\* iff history is non-empty, one inline-data part per attachment in order,
\* and the message as the last text part.
C9_ContentParts ==
    \A c \in Calls : Started(c, "chatWithGemini") =>
        LET a == args[c]
            parts == requests[c][1].contents.parts
            n == Len(a.attachments)
            h == IF Len(a.history) > 0 THEN 1 ELSE 0
        IN  /\ Len(parts) = h + n + 1
            /\ h = 1 => DOMAIN parts[1] = {"text"} /\ parts[1] # [text |-> a.message]
            /\ \A i \in 1..n :
                  parts[h + i] = [inlineData |-> [mimeType |-> a.attachments[i].mimeType,
                                                  data |-> a.attachments[i].data]]
            /\ parts[Len(parts)] = [text |-> a.message]

\* a chat call with history and two different attachments has sent its parts
C9_Witness ==
    \E c \in Calls :
        /\ Started(c, "chatWithGemini")
        /\ Len(args[c].history) = 2
        /\ args[c].attachments = <<Att2, Att1>>
        /\ Len(requests[c][1].contents.parts) = 4

\* C10: every paper generateMockPaper returns has a questions sequence and a
\* text title, in every upstream outcome.
C10_PaperShape ==
    \A c \in Calls : Finished(c, "generateMockPaper") =>
        /\ PaperField(c, "questions").t = "arr"
        /\ PaperField(c, "title").t = "str"

====
